---- MODULE Spec2Model ----
(***************************************************************************)
(* Consent tracking of the client API (clientapi/routing/                   *)
(* consent_tracking.go): the /consent request handler, the batch sender of  *)
(* server notices for outdated policy versions, and the signed-link         *)
(* helpers buildConsentURI / validHMAC.                                     *)
(*                                                                          *)
(* Strings are sequences of byte values (0..255); the empty string is <<>>. *)
(* Policy versions are opaque and only compared for equality, so they are   *)
(* kept as TLA+ strings, "" being the empty version.                        *)
(***************************************************************************)
EXTENDS Integers, Sequences, FiniteSets, TLC

(* ------------------------------ bounds --------------------------------- *)

\* digest length of the modelled MAC, in bytes
MacLen == 2

\* number of dispatch passes explored
MaxPasses == 2

(* --------------------------- configuration ----------------------------- *)

\* the sigil of a user ID, '@'
Sigil == 64

\* cfg.Matrix.ServerName: "s"
ServerName == <<115>>

\* cfg.Matrix.ServerNotices.LocalPart: "n"
NoticesLocalPart == <<110>>

\* cfg.Matrix.UserConsentOptions.Version
Version == "2"

\* cfg.Matrix.UserConsentOptions.FormSecret: "k7"
FormSecret == <<107, 55>>

\* local parts of the accounts: "a", "b" and the notice sender
Accounts == {<<97>>, <<98>>, NoticesLocalPart}

\* policy versions a record or a request can carry
Versions == {"", "1", "2"}

(* ------------------------------ helpers -------------------------------- *)

\* fmt.Sprintf("@%s:%s", userID, ServerName)
FullID(localPart) == <<Sigil>> \o localPart \o <<58>> \o ServerName

\* index of the first ':' of id, 0 when there is none
RECURSIVE FirstColon(_, _)
FirstColon(id, i) ==
    IF i > Len(id) THEN 0
    ELSE IF id[i] = 58 THEN i
    ELSE FirstColon(id, i + 1)

\* gomatrixserverlib.SplitID('@', id): the ID must start with the sigil and
\* hold a ':'; the local part is what lies between them
SplitID(id) ==
    IF Len(id) = 0 \/ id[1] # Sigil THEN [err |-> TRUE, local |-> <<>>]
    ELSE IF FirstColon(id, 1) = 0 THEN [err |-> TRUE, local |-> <<>>]
    ELSE [err |-> FALSE, local |-> SubSeq(id, 2, FirstColon(id, 1) - 1)]

\* sum of s[j] * (j + k) over the bytes of s
RECURSIVE Weighted(_, _, _)
Weighted(s, k, j) ==
    IF j > Len(s) THEN 0
    ELSE s[j] * (j + k) + Weighted(s, k, j + 1)

\* hmac.New(sha256.New, secret); mac.Write(msg); mac.Sum(nil): a keyed digest
\* of MacLen bytes, a function of the key and of every byte of the message
HMAC(secret, msg) ==
    [i \in 1..MacLen |->
        (Weighted(secret, 3 * i, 1) + Weighted(msg, 7 * i, 1) + 31 * Len(msg)) % 256]

\* one lower-case hex digit of hex.EncodeToString
HexDigit(n) == IF n < 10 THEN 48 + n ELSE 87 + n

\* hex.EncodeToString: two hex digits per byte
RECURSIVE EncodeToString(_)
EncodeToString(b) ==
    IF Len(b) = 0 THEN <<>>
    ELSE <<HexDigit(Head(b) \div 16), HexDigit(Head(b) % 16)>> \o EncodeToString(Tail(b))

\* the value of one hex digit, -1 for a byte that is not a hex digit
FromHexChar(c) ==
    IF c \in 48..57 THEN c - 48
    ELSE IF c \in 97..102 THEN c - 87
    ELSE IF c \in 65..70 THEN c - 55
    ELSE -1

\* hex.DecodeString: fails on an odd length or on a byte that is no hex digit
RECURSIVE DecodePairs(_)
DecodePairs(s) ==
    IF Len(s) = 0 THEN <<>>
    ELSE <<FromHexChar(s[1]) * 16 + FromHexChar(s[2])>> \o DecodePairs(SubSeq(s, 3, Len(s)))

DecodeString(s) ==
    IF Len(s) % 2 # 0 \/ \E i \in 1..Len(s) : FromHexChar(s[i]) = -1
    THEN [err |-> TRUE, bytes |-> <<>>]
    ELSE [err |-> FALSE, bytes |-> DecodePairs(s)]

\* the comparison of the first byte only
validHMAC_FirstByte(username, userHMAC, secret) ==
    LET expectedMAC == HMAC(secret, username)
        decoded     == DecodeString(userHMAC)
    IN  IF decoded.err THEN [ok |-> FALSE, err |-> TRUE]
        ELSE [ok |-> Len(decoded.bytes) > 0 /\ decoded.bytes[1] = expectedMAC[1],
              err |-> FALSE]

\* validHMAC(username, userHMAC, secret): (ok, err)
validHMAC(username, userHMAC, secret) ==
    LET expectedMAC == HMAC(secret, username)
        decoded     == DecodeString(userHMAC)
    IN  IF decoded.err THEN [ok |-> FALSE, err |-> TRUE]
        ELSE [ok |-> decoded.bytes = expectedMAC, err |-> FALSE]

\* the h of a link as fmt.Sprintf prints it: the verb %s applied to the
\* []byte userMAC writes the bytes of the digest themselves
FormatMAC(userMAC) == userMAC

\* buildConsentURI(cfgClient, userID): the query parameters of
\* <BaseURL>/_matrix/client/consent?u=%s&h=%s&v=%s
buildConsentURI(userID) ==
    [u |-> userID, h |-> FormatMAC(HMAC(FormSecret, userID)), v |-> Version]

(* ------------------------------ the store ------------------------------ *)

\* userAPI.QueryPolicyVersion: the accepted version of the record of
\* localPart, empty when there is no record
QueryPolicyVersion(st, localPart) ==
    IF localPart \in DOMAIN st THEN st[localPart] ELSE ""

\* userAPI.PerformUpdatePolicyVersion: sets the accepted version of the record
\* of localPart, creating the record on its first write
PerformUpdatePolicyVersion(st, localPart, policyVersion) ==
    (localPart :> policyVersion) @@ st

\* userAPI.QueryOutdatedPolicy: the local parts whose accepted version differs
\* from policyVersion
QueryOutdatedPolicy(st, policyVersion) ==
    {k \in DOMAIN st : st[k] # policyVersion}

(* ------------------------------- state --------------------------------- *)

VARIABLES
    store,         \* the consent records: local part -> accepted version
    last,          \* the last request served by consent() and its response
    pc,            \* position of sendServerNoticeForConsent
    outdated,      \* res.OutdatedUsers of the running pass
    idx,           \* index of the range loop over res.OutdatedUsers
    userID,        \* the loop variable userID once it is rewritten to the full ID
    sentMessages,  \* the counter sentMessages
    link,          \* the parameters of the last link built by buildConsentURI
    pass,          \* what the running pass has done so far, per listed user
    passes,        \* number of passes started
    cancelled      \* the caller of the running pass has cancelled it

vars == <<store, last, pc, outdated, idx, userID, sentMessages, link, pass, passes, cancelled>>

handlerVars == <<store, last>>
dispatchVars == <<pc, outdated, idx, userID, sentMessages, link, pass, passes, cancelled>>

NoRequest ==
    [method |-> "none", u |-> <<>>, v |-> "", h |-> <<>>, view |-> "none",
     rendered |-> FALSE, result |-> "none", body |-> "none", reads |-> 0, writes |-> 0,
     storeErr |-> FALSE]

NoLink == [u |-> <<>>, h |-> <<>>, v |-> ""]

NewPass ==
    [listErr |-> FALSE, skipped |-> {}, attempted |-> {}, templateFailed |-> {},
     sendFailed |-> {}, delivered |-> {}, updIssued |-> {}, updOk |-> {}]

(* ----------------------------- request inputs -------------------------- *)

\* "@a:s" and "@b:s"
Alice == FullID(<<97>>)
Bob == FullID(<<98>>)

\* the u of a request: empty, two user IDs, an ID without sigil ("a") and an
\* ID without ':' ("@a")
UInputs == {<<>>, Alice, Bob, <<97>>, <<Sigil, 97>>}

\* the last byte of a string replaced by another hex digit
Tamper(s) ==
    [s EXCEPT ![Len(s)] = IF s[Len(s)] = 48 THEN 49 ELSE 48]

\* index of the first hex letter a..f of s at or after i, 0 when there is none
RECURSIVE FirstLetter(_, _)
FirstLetter(s, i) ==
    IF i > Len(s) THEN 0
    ELSE IF s[i] \in 97..102 THEN i
    ELSE FirstLetter(s, i + 1)

\* the first hex letter of a string replaced by its upper-case form
UpperCase(s) ==
    IF FirstLetter(s, 1) = 0 THEN s
    ELSE [s EXCEPT ![FirstLetter(s, 1)] = @ - 32]

\* the h of a request: empty, the hex signatures of the two user IDs, a
\* signature with its last digit altered, a signature with one letter in
\* upper case, the h of a link built for "@a:s", and a string that is not hex
\* ("zz")
HInputs ==
    {<<>>,
     EncodeToString(HMAC(FormSecret, Alice)),
     EncodeToString(HMAC(FormSecret, Bob)),
     Tamper(EncodeToString(HMAC(FormSecret, Alice))),
     UpperCase(EncodeToString(HMAC(FormSecret, Alice))),
     buildConsentURI(Alice).h,
     <<122, 122>>}

(* ------------------------- the consent handler ------------------------- *)

\* the test with "and" in place of "or"
PublicVersion_AllEmpty(u, v, h) == u = <<>> /\ h = <<>> /\ v = ""

\* data.PublicVersion of a GET
PublicVersion(u, v, h) == u = <<>> \/ h = <<>> \/ v = ""

\* the comparison left out
HasConsented_Always(policyVersion) == TRUE

\* data.HasConsented of a GET
HasConsented(policyVersion) == policyVersion = Version

\* the check without its "|| !ok"
InvalidHMAC_ErrOnly(u, h) == validHMAC(u, h, FormSecret).err

\* the check of the POST branch: err != nil || !ok
InvalidHMAC(u, h) ==
    LET r == validHMAC(u, h, FormSecret) IN r.err \/ ~r.ok

\* the error of QueryPolicyVersion ignored
ReadFailed_Ignored(storeOk) == FALSE

\* the test err != nil on the result of QueryPolicyVersion
ReadFailed(storeOk) == ~storeOk

\* the view that the template renders from data
View(publicVersion, hasConsented) ==
    IF publicVersion THEN "PublicView"
    ELSE IF hasConsented THEN "ConfirmedView"
    ELSE "PromptView"

\* the request carrying the server's version in place of the request's v
PostUpdateRequest_Current(localPart, v) ==
    [PolicyVersion |-> Version, LocalPart |-> localPart]

\* the request of the handler's PerformUpdatePolicyVersion
PostUpdateRequest(localPart, v) ==
    [PolicyVersion |-> v, LocalPart |-> localPart]

\* the request as consent() reads it
Request(method, u, v, h) ==
    [NoRequest EXCEPT !.method = method, !.u = u, !.v = v, !.h = h]

\* a GET that records the v of the request for an identified user
ConsentGet_Records(u, v, h, storeOk, renderOk) ==
    LET req == Request("GET", u, v, h)
        id  == SplitID(u)
    IN  /\ IF PublicVersion(u, v, h) \/ id.err
           THEN /\ last' = [req EXCEPT !.result = "internalError"]
                /\ store' = store
           ELSE /\ last' = [req EXCEPT !.view = View(FALSE, v = Version), !.rendered = renderOk,
                                      !.result = "nil", !.writes = 1]
                /\ store' = PerformUpdatePolicyVersion(store, id.local, v)
        /\ UNCHANGED dispatchVars

\* consent(), case http.MethodGet
ConsentGet(u, v, h, storeOk, renderOk) ==
    LET req == Request("GET", u, v, h)
        id  == SplitID(u)
    IN  /\ store' = store
        /\ last' =
            IF PublicVersion(u, v, h)
            THEN [req EXCEPT !.view = View(TRUE, FALSE), !.rendered = renderOk,
                             !.result = "nil", !.body = IF renderOk THEN "template" ELSE "none"]
            ELSE IF id.err
            THEN [req EXCEPT !.result = "internalError"]
            ELSE IF ReadFailed(storeOk)
            THEN [req EXCEPT !.result = "internalError", !.reads = 1, !.storeErr = ~storeOk]
            ELSE [req EXCEPT !.view = View(FALSE, HasConsented(QueryPolicyVersion(store, id.local))),
                             !.rendered = renderOk, !.result = "nil", !.reads = 1,
                             !.storeErr = ~storeOk,
                             !.body = IF renderOk THEN "template" ELSE "none"]
        /\ UNCHANGED dispatchVars

\* consent(), case http.MethodPost
ConsentPost(u, v, h, storeOk, renderOk) ==
    LET req == Request("POST", u, v, h)
        id  == SplitID(u)
    IN  /\ IF id.err
           THEN /\ last' = [req EXCEPT !.result = "internalError"]
                /\ store' = store
           ELSE IF InvalidHMAC(u, h)
           THEN /\ last' = [req EXCEPT !.result = "internalError",
                                      !.body = "invalid HMAC provided"]
                /\ store' = store
           ELSE IF ~storeOk
           THEN /\ last' = [req EXCEPT !.result = "internalError", !.writes = 1,
                                      !.storeErr = TRUE,
                                      !.body = "unable to update database"]
                /\ store' = store
           ELSE /\ store' = PerformUpdatePolicyVersion(store,
                                PostUpdateRequest(id.local, v).LocalPart,
                                PostUpdateRequest(id.local, v).PolicyVersion)
                /\ last' = [req EXCEPT !.view = View(FALSE, TRUE), !.rendered = renderOk,
                                      !.writes = 1,
                                      !.result = IF renderOk THEN "nil" ELSE "internalError",
                                      !.body = IF renderOk THEN "template" ELSE "none"]
        /\ UNCHANGED dispatchVars

\* consent(), any other method: falls through the switch
ConsentOther ==
    /\ last' = [Request("PUT", <<>>, "", <<>>) EXCEPT !.result = "200"]
    /\ store' = store
    /\ UNCHANGED dispatchVars

(* ----------------------- the notice dispatcher -------------------------- *)

\* all orders in which a set of users can be listed
Orders(S) ==
    {f \in [1..Cardinality(S) -> S] : \A i, j \in 1..Cardinality(S) : f[i] = f[j] => i = j}

\* the test left out
IsNoticeSender_Never(user) == FALSE

\* the test that skips the notice sender
IsNoticeSender(user) == user = NoticesLocalPart

\* the request of the dispatcher's PerformUpdatePolicyVersion; userID is the
\* loop variable, by then rewritten to the full ID
UpdateRequest(uid) ==
    [PolicyVersion |-> Version, LocalPart |-> uid, ServerNoticeUpdate |-> TRUE]

\* the error of sendServerNotice ignored
SendFailed_Ignored(sendOk) == FALSE

\* the test err != nil on the result of sendServerNotice
SendFailed(sendOk) == ~sendOk

\* break in place of continue
Continue_Break(i, n) == n + 1

\* continue: the loop goes on with the next user
Continue(i, n) == i + 1

\* the increment left out
Increment_None(n) == n

\* sentMessages++
Increment(n) == n + 1

\* the request asking for the users of every version but the empty one
OutdatedRequest_Empty == [PolicyVersion |-> ""]

\* the request of QueryOutdatedPolicy
OutdatedRequest == [PolicyVersion |-> Version]

\* sendServerNoticeForConsent starts: userAPI.QueryOutdatedPolicy
DispatchList(listOk) ==
    /\ pc \in {"idle", "done"}
    /\ passes < MaxPasses
    /\ passes' = passes + 1
    /\ sentMessages' = 0
    /\ userID' = <<>>
    /\ idx' = 1
    /\ link' = NoLink
    /\ cancelled' = FALSE
    /\ IF listOk
       THEN /\ outdated' \in Orders(QueryOutdatedPolicy(store, OutdatedRequest.PolicyVersion))
            /\ pass' = NewPass
            /\ pc' = "loop"
       ELSE /\ outdated' = <<>>
            /\ pass' = [NewPass EXCEPT !.listErr = TRUE]
            /\ pc' = "done"
    /\ UNCHANGED handlerVars

\* one iteration of the loop up to and including sendServerNotice
DispatchUser(templateOk, sendOk) ==
    /\ pc = "loop"
    /\ idx <= Len(outdated)
    /\ LET user == outdated[idx]
           uid  == FullID(user)
       IN  IF IsNoticeSender(user)
           THEN /\ idx' = Continue(idx, Len(outdated))
                /\ pass' = [pass EXCEPT !.skipped = @ \cup {user}]
                /\ UNCHANGED <<pc, userID, sentMessages, link>>
           ELSE /\ link' = buildConsentURI(uid)
                /\ IF ~templateOk
                   THEN /\ idx' = Continue(idx, Len(outdated))
                        /\ pass' = [pass EXCEPT !.attempted = @ \cup {user},
                                                !.templateFailed = @ \cup {user}]
                        /\ UNCHANGED <<pc, userID, sentMessages>>
                   ELSE /\ pass' = [pass EXCEPT !.attempted = @ \cup {user},
                                                !.sendFailed = IF sendOk THEN @ ELSE @ \cup {user},
                                                !.delivered = IF sendOk THEN @ \cup {user} ELSE @]
                        /\ IF SendFailed(sendOk)
                           THEN /\ idx' = Continue(idx, Len(outdated))
                                /\ UNCHANGED <<pc, userID, sentMessages>>
                           ELSE /\ sentMessages' = Increment(sentMessages)
                                /\ userID' = uid
                                /\ pc' = "update"
                                /\ UNCHANGED idx
    /\ UNCHANGED <<outdated, passes, cancelled>>
    /\ UNCHANGED handlerVars

\* the rest of the iteration: userAPI.PerformUpdatePolicyVersion
DispatchUpdate(storeOk) ==
    /\ pc = "update"
    /\ LET user == outdated[idx]
           req  == UpdateRequest(userID)
       IN  /\ pass' = [pass EXCEPT !.updIssued = @ \cup {[user |-> user, req |-> req]},
                                   !.updOk = IF storeOk THEN @ \cup {user} ELSE @]
           /\ store' = IF storeOk
                       THEN PerformUpdatePolicyVersion(store, req.LocalPart, req.PolicyVersion)
                       ELSE store
    /\ idx' = Continue(idx, Len(outdated))
    /\ pc' = "loop"
    /\ UNCHANGED <<last, outdated, userID, sentMessages, link, passes, cancelled>>

\* the loop is over: the count is reported
DispatchEnd ==
    /\ pc = "loop"
    /\ idx > Len(outdated)
    /\ pc' = "done"
    /\ UNCHANGED <<outdated, idx, userID, sentMessages, link, pass, passes, cancelled>>
    /\ UNCHANGED handlerVars

\* the caller of a running pass cancels it. The pass holds no context of its
\* caller: every store and messaging call is made with context.Background(),
\* so no step of the pass reads the cancellation
Cancel ==
    /\ pc \in {"loop", "update"}
    /\ ~cancelled
    /\ cancelled' = TRUE
    /\ UNCHANGED <<pc, outdated, idx, userID, sentMessages, link, pass, passes>>
    /\ UNCHANGED handlerVars

(* --------------------------- specification ----------------------------- *)

Init ==
    /\ store \in [Accounts -> {"1", "2"}]
    /\ last = NoRequest
    /\ pc = "idle"
    /\ outdated = <<>>
    /\ idx = 1
    /\ userID = <<>>
    /\ sentMessages = 0
    /\ link = NoLink
    /\ pass = NewPass
    /\ passes = 0
    /\ cancelled = FALSE

\* the signature of a minted link as the handler expects it: hex of the MAC
Signature(u) == EncodeToString(HMAC(FormSecret, u))

\* requests served while a dispatch pass may be running: the signed requests
\* of the two users, with every version
SignedRequests ==
    {[u |-> u, v |-> v, h |-> Signature(u)] : u \in {Alice, Bob}, v \in Versions}

\* every combination of the request inputs
AllRequests ==
    {[u |-> u, v |-> v, h |-> h] : u \in UInputs, v \in Versions, h \in HInputs}

Get(Reqs, Outcomes) ==
    \E r \in Reqs, storeOk \in Outcomes, renderOk \in Outcomes :
        ConsentGet(r.u, r.v, r.h, storeOk, renderOk)

Post(Reqs, Outcomes) ==
    \E r \in Reqs, storeOk \in Outcomes, renderOk \in Outcomes :
        ConsentPost(r.u, r.v, r.h, storeOk, renderOk)

\* the whole system: the dispatcher and the requests of users who follow
\* their links
Next ==
    \/ Get(SignedRequests, {TRUE})
    \/ Post(SignedRequests, {TRUE})
    \/ ConsentOther
    \/ \E listOk \in BOOLEAN : DispatchList(listOk)
    \/ \E templateOk \in BOOLEAN, sendOk \in BOOLEAN : DispatchUser(templateOk, sendOk)
    \/ \E storeOk \in BOOLEAN : DispatchUpdate(storeOk)
    \/ DispatchEnd

Spec == Init /\ [][Next]_vars

\* the handler alone, under every request and every outcome of the store and
\* of the templates
NextConsent ==
    \/ Get(AllRequests, BOOLEAN)
    \/ Post(AllRequests, BOOLEAN)
    \/ ConsentOther

SpecConsent == Init /\ [][NextConsent]_vars

\* the dispatcher alone, with a caller that may cancel a running pass
NextCancel ==
    \/ \E listOk \in BOOLEAN : DispatchList(listOk)
    \/ \E templateOk \in BOOLEAN, sendOk \in BOOLEAN : DispatchUser(templateOk, sendOk)
    \/ \E storeOk \in BOOLEAN : DispatchUpdate(storeOk)
    \/ DispatchEnd
    \/ Cancel

SpecCancel == Init /\ [][NextCancel]_vars

TypeOK ==
    /\ pc \in {"idle", "loop", "update", "done"}
    /\ \A k \in DOMAIN store : store[k] \in Versions
    /\ sentMessages \in 0..Len(outdated)

(* ------------------------------ properties ------------------------------ *)

\* the local part that the handler derives from the u of a request
LocalOf(u) == SplitID(u).local

\* the signature check of a request fails: h is not valid hex, or it decodes
\* to something else than HMAC(secret, u)
SignatureFails(u, h) ==
    DecodeString(h).err \/ DecodeString(h).bytes # HMAC(FormSecret, u)

\* a POST that passed the signature check and whose store write succeeded
AcceptedPost(r) ==
    /\ r.method = "POST"
    /\ r.writes = 1
    /\ r.body # "unable to update database"

\* a GET with the parameters of request r that ended without internal error
GetAfter(r, g) ==
    /\ g.method = "GET"
    /\ g.u = r.u /\ g.v = r.v /\ g.h = r.h
    /\ g.result = "nil"

\* C1: a POST whose signature check fails is answered "invalid HMAC provided"
\* (as soon as its identity parses, so that the check is made), issues no
\* store write and leaves the accepted version of every user as it was
C1_RejectedPost ==
    [][(last'.method = "POST" /\ SignatureFails(last'.u, last'.h))
        => /\ last'.writes = 0
           /\ last'.view = "none"
           /\ store' = store
           /\ (~SplitID(last'.u).err =>
                 /\ last'.body = "invalid HMAC provided"
                 /\ last'.result = "internalError")]_vars

C1_Witness ==
    /\ last.method = "POST"
    /\ last.u = Alice
    /\ last.h = Tamper(Signature(Alice))
    /\ last.body = "invalid HMAC provided"
    /\ store[LocalOf(Alice)] = "1"

\* C2 as stated: after an accepted POST with u, v and a valid signature the
\* store holds v for u and the POST renders ConfirmedView, and a GET with the
\* same parameters that follows it renders ConfirmedView
C2_Original ==
    [][/\ AcceptedPost(last') =>
            /\ store'[LocalOf(last'.u)] = last'.v
            /\ last'.view = "ConfirmedView"
       /\ (AcceptedPost(last) /\ GetAfter(last, last')) =>
            last'.view = "ConfirmedView"]_vars

\* C3 as stated: the update of a user whose notice was delivered and whose
\* store update succeeded is applied to the record of that user as listed in
\* the outdated set, with the current version and the notice flag
C3_UpdateTargetsListedUser ==
    \A e \in pass.updIssued :
        e.user \in pass.updOk =>
            /\ e.req.LocalPart = e.user
            /\ e.req.PolicyVersion = Version
            /\ e.req.ServerNoticeUpdate

\* users of the running pass for whom a store update was issued
UpdatedUsers == {e.user : e \in pass.updIssued}

\* C4: no store update is issued for a user whose notice delivery failed in
\* the running pass: the failing step leaves the store as it is and goes on
\* with the next user, so the user is outdated afterwards whenever it was
\* before
C4_FailedDelivery ==
    [][/\ pass'.sendFailed \cap UpdatedUsers' = {}
       /\ (pc = "loop" /\ pass'.sendFailed # pass.sendFailed) =>
            /\ store' = store
            /\ pc' = "loop"
            /\ \A u \in pass'.sendFailed \ pass.sendFailed :
                  u \in QueryOutdatedPolicy(store, Version)
                     => u \in QueryOutdatedPolicy(store', Version)]_vars

C4_Witness ==
    /\ pc = "done"
    /\ pass.sendFailed # {}
    /\ pass.updOk # {}
    /\ \A u \in pass.sendFailed : u \in QueryOutdatedPolicy(store, Version)

\* C5 as stated: the reported count is the number of users whose delivery and
\* whose store update both succeeded
C5_Original ==
    pc = "done" => sentMessages = Cardinality(pass.updOk)

\* C5 (amended): the reported count is the number of users whose notice
\* delivery succeeded, whether or not their store update succeeded
C5_CountsDeliveries ==
    pc = "done" => sentMessages = Cardinality(pass.delivered)

C5_Witness ==
    /\ pc = "done"
    /\ sentMessages = 2
    /\ Cardinality(pass.updOk) = 1

\* C6 as stated: the h of a minted link is the hex encoding of
\* HMAC(secret, identity), and validHMAC accepts the u and h of the link
C6_MintedLinkVerifies ==
    link # NoLink =>
        /\ link.h = EncodeToString(HMAC(FormSecret, link.u))
        /\ validHMAC(link.u, link.h, FormSecret) = [ok |-> TRUE, err |-> FALSE]

\* C7: the notice sender is never sent a notice and never has a store update
\* issued for it by the dispatcher, also when it is listed as outdated
C7_SenderNeverNoticed ==
    /\ NoticesLocalPart \notin (pass.attempted \cup pass.delivered \cup pass.sendFailed)
    /\ link.u # FullID(NoticesLocalPart)
    /\ userID # FullID(NoticesLocalPart)
    /\ \A e \in pass.updIssued :
          /\ e.user # NoticesLocalPart
          /\ e.req.LocalPart \notin {NoticesLocalPart, FullID(NoticesLocalPart)}

C7_Witness ==
    /\ pc = "done"
    /\ NoticesLocalPart \in pass.skipped
    /\ pass.delivered # {}

\* C8: a GET in which one of u, v, h is empty renders PublicView and makes no
\* store call
C8_PublicGet ==
    (last.method = "GET" /\ (last.u = <<>> \/ last.v = "" \/ last.h = <<>>)) =>
        /\ last.view = "PublicView"
        /\ last.reads = 0
        /\ last.writes = 0

C8_Witness ==
    /\ last.method = "GET"
    /\ last.u = Alice
    /\ last.h = Signature(Alice)
    /\ last.v = ""
    /\ last.view = "PublicView"

\* the users of a list
Listed(seq) == {seq[i] : i \in 1..Len(seq)}

\* C9: a pass that listed the outdated users has, when it ends, made an
\* attempt for every listed user but the notice sender, whatever failed on
\* the way; a pass whose listing failed has made none
C9_PassCompletes ==
    pc = "done" =>
        IF pass.listErr
        THEN pass.attempted = {} /\ pass.skipped = {} /\ outdated = <<>>
        ELSE /\ pass.attempted = Listed(outdated) \ {NoticesLocalPart}
             /\ pass.attempted =
                   pass.templateFailed \cup pass.sendFailed \cup pass.delivered
             /\ pass.delivered = UpdatedUsers

C9_Witness ==
    /\ pc = "done"
    /\ Len(outdated) = 3
    /\ outdated[1] \in pass.sendFailed
    /\ outdated[2] \in pass.skipped
    /\ outdated[3] \in pass.delivered \ pass.updOk

\* C10: a GET with non-empty u, v, h whose identity parses and whose store
\* read succeeds renders ConfirmedView when the stored accepted version of the
\* user is the current policy version and PromptView otherwise, whatever its
\* v and h
C10_GetView ==
    (/\ last.method = "GET"
     /\ last.u # <<>> /\ last.v # "" /\ last.h # <<>>
     /\ ~SplitID(last.u).err
     /\ last.result = "nil") =>
        /\ last.reads = 1
        /\ last.view = IF /\ LocalOf(last.u) \in DOMAIN store
                          /\ store[LocalOf(last.u)] = Version
                       THEN "ConfirmedView"
                       ELSE "PromptView"

C10_Witness ==
    /\ last.method = "GET"
    /\ last.u = Alice
    /\ last.v = "1"
    /\ last.h = Tamper(Signature(Alice))
    /\ last.view = "ConfirmedView"

\* C11: a request whose store read or store write returned an error ends in
\* an internal failure and renders no view; a failed read is not shown as
\* PromptView
C11_StoreErrorIsInternal ==
    last.storeErr =>
        /\ last.result = "internalError"
        /\ last.view = "none"
        /\ ~last.rendered
        /\ last.body # "template"

C11_Witness ==
    /\ last.method = "GET"
    /\ last.u = Alice
    /\ last.storeErr
    /\ last.reads = 1
    /\ store[LocalOf(Alice)] = "1"

\* a POST that reached the signature check
CheckedPost(r) == r.method = "POST" /\ ~SplitID(r.u).err

\* C12 as stated: the check accepts h only when it decodes to HMAC(secret, u),
\* a signature of another identity or a signature altered in any position is
\* refused, and an h that is not hex is rejected as invalid
C12_Original ==
    CheckedPost(last) =>
        /\ last.writes = 1 =>
              /\ ~DecodeString(last.h).err
              /\ DecodeString(last.h).bytes = HMAC(FormSecret, last.u)
              /\ last.h = EncodeToString(HMAC(FormSecret, last.u))
        /\ DecodeString(last.h).err =>
              /\ last.writes = 0
              /\ last.body = "invalid HMAC provided"

\* C12 (amended): the check accepts h only when it decodes to HMAC(secret, u);
\* a signature of another identity is refused; a signature altered in one
\* position is refused unless the new byte is the same hex digit in the other
\* case, which decodes to the same bytes; an h that is not hex is rejected as
\* invalid
C12_DecodedMatch ==
    CheckedPost(last) =>
        /\ last.writes = 1 =>
              /\ ~DecodeString(last.h).err
              /\ DecodeString(last.h).bytes = HMAC(FormSecret, last.u)
              /\ \A i \in 1..Len(last.h), c \in 0..255 :
                    validHMAC(last.u, [last.h EXCEPT ![i] = c], FormSecret).ok
                       => FromHexChar(c) = FromHexChar(last.h[i])
        /\ \A u2 \in {Alice, Bob} \ {last.u} :
              last.h = EncodeToString(HMAC(FormSecret, u2)) => last.writes = 0
        /\ DecodeString(last.h).err =>
              /\ last.writes = 0
              /\ last.body = "invalid HMAC provided"

C12_Witness ==
    /\ last.method = "POST"
    /\ last.u = Alice
    /\ last.h = UpperCase(Signature(Alice))
    /\ last.h # Signature(Alice)
    /\ last.writes = 1

\* C13 as stated: a POST in which one of u, v, h is empty renders PublicView
\* and makes no store call; a POST with an empty v writes no empty accepted
\* version
C13_PublicPost ==
    (last.method = "POST" /\ (last.u = <<>> \/ last.v = "" \/ last.h = <<>>)) =>
        /\ last.view = "PublicView"
        /\ last.reads = 0
        /\ last.writes = 0

\* C14 as stated: whenever a request renders ConfirmedView for a user, the
\* accepted version that the store holds for that user is the current policy
\* version
C14_ConfirmedMeansCurrent ==
    last.view = "ConfirmedView" =>
        /\ LocalOf(last.u) \in DOMAIN store
        /\ store[LocalOf(last.u)] = Version

\* C15: a request makes at most one store call: a GET never writes and reads
\* at most once, a POST never reads and writes at most once; the store changes
\* only in the step of a POST that wrote or in the update step of the
\* dispatcher
C15_OneStoreCall ==
    [][/\ last'.reads + last'.writes <= 1
       /\ last'.method = "GET" => last'.writes = 0
       /\ last'.method = "POST" => last'.reads = 0
       /\ store' # store =>
            \/ /\ pc = "update" /\ pc' = "loop"
               /\ last' = last
            \/ /\ UNCHANGED dispatchVars
               /\ last'.method = "POST"
               /\ last'.writes = 1]_vars

C15_Witness ==
    /\ last.method = "GET"
    /\ last.reads = 1
    /\ last.view = "PromptView"
    /\ pc = "update"
    /\ \E k \in DOMAIN store : k \notin Accounts

\* C16: an accepted POST sets the record of the user named in its own u to its
\* v and leaves every other record as it was, and no other request changes a
\* record; so, however the POSTs are ordered, the accepted version of a user
\* is the v of the POST for that user whose write was applied last
C16_LastWriteWins ==
    [][IF AcceptedPost(last')
       THEN /\ store'[LocalOf(last'.u)] = last'.v
            /\ DOMAIN store' = DOMAIN store \cup {LocalOf(last'.u)}
            /\ \A k \in DOMAIN store \ {LocalOf(last'.u)} : store'[k] = store[k]
       ELSE store' = store]_vars

C16_Witness ==
    /\ AcceptedPost(last)
    /\ last.u = Bob
    /\ last.v = "1"
    /\ store[LocalOf(Alice)] = ""
    /\ store[LocalOf(Bob)] = "1"

\* C17 as stated: once a running pass is cancelled it makes no further
\* delivery attempt and issues no further store update, and the count stays
\* what it was at the cancellation
C17_NoWorkAfterCancel ==
    [][(cancelled /\ pc \in {"loop", "update"}) =>
            /\ pass'.attempted = pass.attempted
            /\ pass'.updIssued = pass.updIssued
            /\ sentMessages' = sentMessages]_vars

\* C18 as stated: a record that holds the current policy version holds it
\* after every step
C18_CurrentStaysCurrent ==
    [][\A k \in DOMAIN store : store[k] = Version => store'[k] = Version]_vars

\* C19 as stated: a notice is delivered to a user only if the stored accepted
\* version of that user differs from the current policy version at the moment
\* of the delivery
C19_Original ==
    [][(pc = "loop" /\ pc' = "update") =>
            outdated[idx] \in QueryOutdatedPolicy(store, Version)]_vars

\* C19 (amended): the users of a pass are those that were outdated when the
\* set was listed; the list is not read again, and a notice is delivered to a
\* listed user other than the sender whether or not that user has accepted the
\* current version since the listing
C19_DeliversToListed ==
    [][/\ (pc \in {"idle", "done"} /\ pc' = "loop") =>
            Listed(outdated') = QueryOutdatedPolicy(store, Version)
       /\ pc \in {"loop", "update"} => outdated' = outdated
       /\ (pc = "loop" /\ pc' = "update") =>
            /\ outdated[idx] # NoticesLocalPart
            /\ pass'.delivered = pass.delivered \cup {outdated[idx]}
       /\ pass'.delivered \subseteq Listed(outdated')]_vars

C19_Witness ==
    /\ pc = "update"
    /\ outdated[idx] = LocalOf(Alice)
    /\ outdated[idx] \in pass.delivered
    /\ store[outdated[idx]] = Version
    /\ AcceptedPost(last)
    /\ last.u = Alice

====
